---- MODULE Spec2Model ----
(***************************************************************************)
(* A model of briefbot's MCP connection manager                            *)
(* (src/modules/mcp_server_manager.py): MCPServerConnection (connect,      *)
(* disconnect, call_tool, is_connected) and MCPServerManager               *)
(* (connect_to_all_servers, call_tool, cleanup, parse_tool_message),       *)
(* and of the two handlers of src/src/brief_bot.py that use it             *)
(* (openai_query_handler, telegram_message_handler).                       *)
(*                                                                         *)
(* The program is asyncio code: a coroutine runs without interruption from *)
(* one await that suspends to the next.  Each action below is one such     *)
(* segment: it resumes a task at the await it is suspended in (its pc),    *)
(* draws the outcome of the awaited call from the outcomes that call can   *)
(* have, and runs the code up to the next suspending await or the return.  *)
(***************************************************************************)
EXTENDS Integers, Sequences, FiniteSets, TLC

\* ------------------------------------------------------------------ bounds
\* Number of servers a configuration may name.
NumServers == 2
\* Number of MCPServerConnection objects created in one behaviour.
MaxConnections == 3
\* Number of content fragments of a reply handed to parse_tool_message.
MaxFragments == 3
\* Length, in tokens, of an env value of a server spec.
MaxValueLen == 6
\* Number of outputs of one model response handed to openai_query_handler.
MaxOutputs == 2
\* Length, in characters, of a response handed to telegram_message_handler.
MaxResponseLen == 6
\* brief_bot.MAX_MESSAGE_LENGTH (4000 in the source), scaled to the responses
\* above.
MAX_MESSAGE_LENGTH == 3

\* --------------------------------------------------------------- constants
\* max_retries of the initialize loop.
max_retries == 3

Servers == 1..NumServers
\* The asyncio tasks of the model.  Spec runs one caller at a time (task 1).
Tasks == {1, 2}

VARIABLES
    source,        \* what the file at config_path is
    config,        \* the servers its "mcpServers" object names, in file order
    heap,          \* the MCPServerConnection objects created so far, by identity
    connections,   \* MCPServerManager.connections: a dict, in insertion order
    all_tools,     \* MCPServerManager.all_tools
    cleanup_done,  \* MCPServerManager._cleanup_done
    task           \* per task: the running operation, its position and locals

vars == <<source, config, heap, connections, all_tools, cleanup_done, task>>

\* ------------------------------------------------------------ python values
\* A python str is a sequence of tokens; None is kept apart from "".
NoneValue == [is_none |-> TRUE, text |-> <<>>]
Str(s) == [is_none |-> FALSE, text |-> s]

\* BooleanMessage
BooleanMessage_success == "tool_call_success"
BooleanMessage_failure == "tool_call_failure"

\* ToolResponse.success / ToolResponse.failure
ToolResponse_success(content) == [kind |-> "ToolResponse", success |-> TRUE, content |-> content]
ToolResponse_failure(content) == [kind |-> "ToolResponse", success |-> FALSE, content |-> content]

\* What an operation handed back to its caller.
Pending == [kind |-> "pending", success |-> FALSE, content |-> NoneValue]
ReturnNone == [kind |-> "None", success |-> FALSE, content |-> NoneValue]
ReturnBool(b) == [kind |-> "bool", success |-> b, content |-> NoneValue]
\* The operation raised e to its caller.
Raises(e) == [kind |-> "raise", success |-> FALSE, content |-> Str(<<e>>)]
\* MCPServerConnection.call_tool returned the raw result (kept in .reply).
ReturnResult == [kind |-> "result", success |-> FALSE, content |-> NoneValue]

\* ------------------------------------------------------- the tool servers
\* What server s answers to list_tools: two tools, named s and s+1, so that
\* neighbouring servers share a tool name.  The first has no description and
\* no inputSchema.
RawTool(n, d, p) == [name |-> n, description |-> d, inputSchema |-> p]
ServerTools(s) == << RawTool(s, "None", "None"), RawTool(s + 1, "text", "schema") >>

\* Tool names a caller may ask for; 0 is exposed by no server.
ToolNames == 0..(NumServers + 1)

\* A content fragment of a reply: one with a .text, or one without.
Fragment(s) == [has_text |-> TRUE, text |-> s]
NoTextFragment == [has_text |-> FALSE, text |-> "repr"]
Reply(c) == [is_none |-> FALSE, content |-> c]
NoneReply == [is_none |-> TRUE, content |-> <<>>]
\* The replies session.call_tool gives in the manager's specification.
Replies ==
    { NoneReply, Reply(<<>>),
      Reply(<<Fragment(BooleanMessage_failure)>>),
      Reply(<<Fragment(BooleanMessage_success)>>),
      Reply(<<Fragment("a")>>),
      Reply(<<Fragment("a"), Fragment("b")>>),
      Reply(<<NoTextFragment>>) }

\* ------------------------------------------------- MCPServerConnection
NewConnection(s) ==
    [ server_name |-> s, session |-> "None", tools |-> <<>>, connected |-> FALSE,
      stdio_context |-> "None", session_context |-> "None",
      read_stream |-> "None", write_stream |-> "None",
      \* bookkeeping: how often __aexit__ was invoked on each context
      session_exits |-> 0, stdio_exits |-> 0 ]

\* is_connected that never says no.
is_connected_Always(c) == TRUE

is_connected(c) == c.connected /\ c.session # "None"

\* AfterCallError marking the connection as lost.
AfterCallError_MarksLost(c) == [c EXCEPT !.connected = FALSE]

\* MCPServerConnection.call_tool's except clause looks at _connected to
\* print a message, and leaves the connection as it is.
AfterCallError(c) == c

\* NotConnected that lets every call through.
NotConnected_Never(c) == FALSE

\* MCPServerConnection.call_tool: the test that raises RuntimeError.
NotConnected(c) == ~c.connected \/ c.session = "None"

\* One normalised tool (the dict appended in connect).
DefaultDescription(s) == [default |-> TRUE, text |-> "Tool from <server> server", server |-> s]
GivenDescription(d) == [default |-> FALSE, text |-> d, server |-> 0]
Descriptor(raw, s) ==
    [ name |-> raw.name, type |-> "function",
      description |-> IF raw.description = "None" THEN DefaultDescription(s)
                      ELSE GivenDescription(raw.description),
      parameters |-> IF raw.inputSchema = "None" THEN "{}" ELSE raw.inputSchema,
      server |-> s ]

\* self.tools after the append loop over `listing` when normalising tool
\* number `bad` raises (0: none raises): the tools before it were appended.
NormalizedTools(listing, s, bad) ==
    [ i \in 1..(IF bad = 0 THEN Len(listing) ELSE bad - 1) |-> Descriptor(listing[i], s) ]

\* AlreadyClosed looking at _connected alone.
AlreadyClosed_IgnoresContexts(c) == ~c.connected

\* disconnect's early return.
AlreadyClosed(c) ==
    ~c.connected /\ c.session_context = "None" /\ c.stdio_context = "None"

\* SessionReleased without `self._session_context = None`.
SessionReleased_KeepsContext(c) == [c EXCEPT !.session = "None"]

\* SessionReleased without `self.session = None`.
SessionReleased_KeepsSession(c) == [c EXCEPT !.session_context = "None"]

\* disconnect, finally of the session release.
SessionReleased(c) == [c EXCEPT !.session_context = "None", !.session = "None"]

\* StdioReleased without `self._stdio_context = None`.
StdioReleased_KeepsContext(c) ==
    [c EXCEPT !.read_stream = "None", !.write_stream = "None"]

\* disconnect, finally of the stdio release.
StdioReleased(c) ==
    [c EXCEPT !.stdio_context = "None", !.read_stream = "None", !.write_stream = "None"]

\* DisconnectStdio that never releases the stdio context.
DisconnectStdio_Skips(c) == [conn |-> [c EXCEPT !.tools = <<>>], at |-> "return"]

\* disconnect from "Close stdio context" on: invoke its release, or finish.
DisconnectStdio(c) ==
    IF c.stdio_context # "None"
    THEN [conn |-> [c EXCEPT !.stdio_exits = @ + 1], at |-> "d_stdio_exit"]
    ELSE [conn |-> [c EXCEPT !.tools = <<>>], at |-> "return"]

\* MarkedDisconnected leaving the flag as it is.
MarkedDisconnected_FlagKept(c) == c

\* disconnect: `self._connected = False`, before anything is released.
MarkedDisconnected(c) == [c EXCEPT !.connected = FALSE]

\* DisconnectBegin that returns at once and releases nothing.
DisconnectBegin_ReleasesNothing(c) == [conn |-> c, at |-> "return"]

\* disconnect from its call to its first suspending await (at: where the task
\* is suspended) or to its return.
DisconnectBegin(c) ==
    IF AlreadyClosed(c) THEN [conn |-> c, at |-> "return"]
    ELSE LET c1 == MarkedDisconnected(c) IN
         IF c1.session_context # "None"
         THEN [conn |-> [c1 EXCEPT !.session_exits = @ + 1], at |-> "d_sess_exit"]
         ELSE DisconnectStdio(c1)

\* ---------------------------------------------------- MCPServerManager
\* dict operations on connections, a sequence of (name, conn) in insertion order
Has(d, k) == \E i \in 1..Len(d) : d[i].name = k
\* Put that stores nothing.
Put_Nothing(d, k, v) == d
Get(d, k) == d[CHOOSE i \in 1..Len(d) : d[i].name = k].conn
Put(d, k, v) ==
    IF Has(d, k)
    THEN [i \in 1..Len(d) |-> IF d[i].name = k THEN [name |-> k, conn |-> v] ELSE d[i]]
    ELSE Append(d, [name |-> k, conn |-> v])
Values(d) == [i \in 1..Len(d) |-> d[i].conn]

\* What the file at config_path can be: missing, no JSON text, JSON whose
\* top level is an array, an object without "mcpServers", an object whose
\* "mcpServers" is a non-empty array, or an object whose "mcpServers" is an
\* object of server specs.
Sources == {"missing", "invalid", "array", "no_key", "key_array", "servers"}

\* load_json_config(config_path, "mcpServers"): FileNotFoundError and
\* JSONDecodeError give {}; on a top level that is no dict `config.get`
\* raises AttributeError, which no clause catches.  kind says what the value
\* returned is, size its len().
load_json_config(src, servers) ==
    CASE src \in {"missing", "invalid", "no_key"} ->
            [raised |-> FALSE, kind |-> "dict", size |-> 0]
      [] src = "array" -> [raised |-> TRUE, kind |-> "none", size |-> 0]
      [] src = "key_array" -> [raised |-> FALSE, kind |-> "list", size |-> 1]
      [] OTHER -> [raised |-> FALSE, kind |-> "dict", size |-> Len(servers)]

\* parse_tool_message: the dict returned, or raised when .text is missing
Joined(content) ==
    LET RECURSIVE J(_)
        J(i) == IF i = 0 THEN <<>>
                ELSE J(i - 1) \o <<"\n">> \o
                     << IF content[i].has_text THEN content[i].text ELSE "repr" >>
    IN J(Len(content))

parse_tool_message(result) ==
    IF result.is_none \/ Len(result.content) = 0
        THEN [raised |-> FALSE, value |-> ToolResponse_failure(NoneValue)]
    ELSE IF ~result.content[1].has_text
        THEN [raised |-> TRUE, value |-> Pending]
    ELSE IF result.content[1].text = BooleanMessage_failure
        THEN [raised |-> FALSE, value |-> ToolResponse_failure(NoneValue)]
    ELSE IF result.content[1].text = BooleanMessage_success
        THEN [raised |-> FALSE, value |-> ToolResponse_success(NoneValue)]
    ELSE [raised |-> FALSE, value |-> ToolResponse_success(Str(Joined(result.content)))]

\* --------------------------------------------------------------- tasks
NoReply == [is_none |-> TRUE, content |-> <<>>]
IdleTask ==
    [ op |-> "idle", pc |-> "idle",
      idx |-> 0,          \* position of the for loop (config or snapshot)
      cur |-> 0,          \* `connection`: the object being worked on
      succ |-> 0,         \* successful_connections
      attempt |-> 0,      \* `attempt` of the initialize loop
      dret |-> "none",    \* who called the disconnect in progress
      snap |-> <<>>,      \* list(self.connections.items())
      tool |-> 0,         \* tool_name
      value |-> <<>>,     \* `value`: the env value being resolved
      environ |-> {},     \* os.environ: the names that are set
      ret |-> Pending,    \* what the operation returned
      \* bookkeeping of the operation in progress, for the properties
      again |-> FALSE,    \* cleanup: called right after a cleanup() returned
      early |-> FALSE,    \* cleanup: _cleanup_done was set when it was called
      attempted |-> <<>>, \* the specs connect() was called for in this run
      inits |-> 0,        \* initialize() calls of the connect in progress
      init_ok |-> FALSE,  \* one of them succeeded
      disc |-> "none",    \* discovery of the connect in progress
      cret |-> "none",    \* what that connect() returned
      dinv |-> <<>>,      \* the disconnect calls made in the last segment
      tfail |-> {},       \* the connections a release step of which raised or was cancelled
      fwd |-> <<>>,       \* the connections session.call_tool was sent to
      reply |-> NoReply,  \* the raw reply received
      raised |-> FALSE,   \* connection.call_tool or the parse raised
      outputs |-> <<>>,   \* openai_query_handler: response.output
      opos |-> 0,         \*   the position of its for loop
      text |-> <<>>,      \*   output_text
      response_text |-> <<>>, \* telegram_message_handler: response_text
      parts |-> <<>>,     \*   parts (the whole text when it is short)
      sent |-> <<>> ]     \*   the texts reply_text was called with

\* The operation has returned (or none was started).
Returned(tk) == tk.pc \in {"idle", "done"}

\* An operation starting: the locals of the one before are gone.
Started(tk, op) ==
    [IdleTask EXCEPT !.op = op,
                     !.again = (op = "cleanup" /\ tk.op = "cleanup" /\ tk.pc = "done")]

Result(h, tk, clear) == [heap |-> h, task |-> tk, clear |-> clear]

\* ------------------------------------------------------- control flow
\* The code a task runs from the point it resumes to its next suspending
\* await, as a function of the heap and the task: Result(heap, task, clear),
\* clear saying that cleanup reached its two clear() calls.
RECURSIVE CallDisconnect(_, _, _), CleanupLoop(_, _)

\* connect_to_all_servers: the loop body from `connection = ...` to the
\* first await of connect(), the __aenter__ of the stdio context just created.
\* With a spec that is not well formed (no "command", an env value that is
\* no string) building the parameters raises before any context exists, and
\* connect()'s except handler runs.
BeginConnect(h, tk, well_formed) ==
    LET s == config[tk.idx]
        tk2 == [tk EXCEPT !.cur = Len(h) + 1, !.pc = "c_stdio_enter", !.attempt = 0,
                          !.attempted = Append(@, s), !.inits = 0,
                          !.init_ok = FALSE, !.disc = "none", !.cret = "none",
                          !.tfail = {}]
    IN IF well_formed
       THEN Result(Append(h, [NewConnection(s) EXCEPT !.stdio_context = "created"]),
                   tk2, FALSE)
       ELSE CallDisconnect(Append(h, NewConnection(s)), tk2, "connect")

\* NextSpec leaving the loop after a spec whose connect failed.
NextSpec_StopsAtFailure(h, tk, well_formed) ==
    IF tk.idx < Len(config) /\ tk.cret # "False"
    THEN BeginConnect(h, [tk EXCEPT !.idx = @ + 1], well_formed)
    ELSE Result(h, [tk EXCEPT !.pc = "done", !.ret = ReturnBool(tk.succ > 0)], FALSE)

\* connect_to_all_servers after asyncio.sleep(0.5): the next spec, or the
\* summary and `return successful_connections > 0`.
NextSpec(h, tk, well_formed) ==
    IF tk.idx < Len(config)
    THEN BeginConnect(h, [tk EXCEPT !.idx = @ + 1], well_formed)
    ELSE Result(h, [tk EXCEPT !.pc = "done", !.ret = ReturnBool(tk.succ > 0)], FALSE)

\* AfterDisconnect leaving cleanup()'s loop once a release step has failed.
AfterDisconnect_CleanupStops(h, tk) ==
    CASE tk.dret = "connect" -> CallDisconnect(h, [tk EXCEPT !.cret = "False"], "manager")
      [] tk.dret = "manager" -> Result(h, [tk EXCEPT !.pc = "m_sleep"], FALSE)
      [] tk.dret = "cleanup" -> IF tk.tfail = {}
                                THEN CleanupLoop(h, [tk EXCEPT !.idx = @ + 1])
                                ELSE Result(h, [tk EXCEPT !.pc = "done", !.ret = ReturnNone], TRUE)
      [] OTHER -> Result(h, [tk EXCEPT !.pc = "done", !.ret = ReturnNone], FALSE)

\* Where a disconnect() that has returned goes back to.
\*   connect:  connect()'s except handler, which returns False to the manager,
\*             whose else branch calls disconnect() again
\*   manager:  the else branch of connect_to_all_servers, then the sleep
\*   cleanup:  the loop of cleanup()
\*   caller:   a caller of connection.disconnect()
AfterDisconnect(h, tk) ==
    CASE tk.dret = "connect" -> CallDisconnect(h, [tk EXCEPT !.cret = "False"], "manager")
      [] tk.dret = "manager" -> Result(h, [tk EXCEPT !.pc = "m_sleep"], FALSE)
      [] tk.dret = "cleanup" -> CleanupLoop(h, [tk EXCEPT !.idx = @ + 1])
      [] OTHER -> Result(h, [tk EXCEPT !.pc = "done", !.ret = ReturnNone], FALSE)

\* `await connection.disconnect()` on tk.cur, called by `who`.
CallDisconnect(h, tk, who) ==
    LET d == DisconnectBegin(h[tk.cur])
        h2 == [h EXCEPT ![tk.cur] = d.conn]
        tk2 == [tk EXCEPT !.dret = who,
                          !.dinv = Append(@, [conn |-> tk.cur, pre |-> h[tk.cur],
                                              post |-> d.conn, at |-> d.at])]
    IN IF d.at = "return" THEN AfterDisconnect(h2, tk2)
       ELSE Result(h2, [tk2 EXCEPT !.pc = d.at], FALSE)

\* CleanupEnd returning before the clear() calls.
CleanupEnd_NoClear(h, tk) == Result(h, [tk EXCEPT !.pc = "done", !.ret = ReturnNone], FALSE)

\* cleanup() after its loop: both clear() calls, and the return.
CleanupEnd(h, tk) == Result(h, [tk EXCEPT !.pc = "done", !.ret = ReturnNone], TRUE)

\* cleanup(): the for loop from position tk.idx of the snapshot.
CleanupLoop(h, tk) ==
    IF tk.idx > Len(tk.snap)
    THEN CleanupEnd(h, tk)
    ELSE LET c == h[tk.snap[tk.idx]] IN
         IF is_connected(c) \/ c.session_context # "None" \/ c.stdio_context # "None"
         THEN CallDisconnect(h, [tk EXCEPT !.cur = tk.snap[tk.idx]], "cleanup")
         ELSE CleanupLoop(h, [tk EXCEPT !.idx = @ + 1])

\* A task resuming: the disconnect calls recorded are those of this segment.
Resume(tk) == [tk EXCEPT !.dinv = <<>>]

\* A task resuming in disconnect() when the awaited __aexit__ has ended with
\* `outcome`: the except clauses around it catch the error and the
\* cancellation, and the code goes on as after a release that returned.
Released(tk, outcome) ==
    [Resume(tk) EXCEPT !.tfail = IF outcome = "ok" THEN @ ELSE @ \cup {tk.cur}]

\* The state after a segment that registers nothing.
Apply(t, r) ==
    /\ heap' = r.heap
    /\ task' = [task EXCEPT ![t] = r.task]
    /\ connections' = IF r.clear THEN <<>> ELSE connections
    /\ all_tools' = IF r.clear THEN <<>> ELSE all_tools

\* ------------------------------------------------------------- actions
Init ==
    /\ source = "servers"
    /\ config \in { [i \in 1..n |-> i] : n \in 0..NumServers }
    /\ heap = <<>>
    /\ connections = <<>>
    /\ all_tools = <<>>
    /\ cleanup_done = FALSE
    /\ task = [t \in Tasks |-> IdleTask]

\* connect_to_all_servers is called: the configuration is loaded, and
\* either loading raises, or nothing is configured, or `config.items()` raises
\* on what is no dict, or the loop starts.
ConnectToAllServers(t) ==
    /\ Returned(task[t])
    /\ Len(heap) + Len(config) <= MaxConnections
    /\ \E well_formed \in BOOLEAN :
         LET tk == Started(task[t], "connect_all")
             loaded == load_json_config(source, config)
         IN
         Apply(t, IF loaded.raised
                  THEN Result(heap, [tk EXCEPT !.pc = "done", !.raised = TRUE,
                                               !.ret = Raises("AttributeError")], FALSE)
                  ELSE IF loaded.size = 0
                  THEN Result(heap, [tk EXCEPT !.pc = "done", !.ret = ReturnBool(FALSE)], FALSE)
                  ELSE IF loaded.kind # "dict"
                  THEN Result(heap, [tk EXCEPT !.pc = "done", !.raised = TRUE,
                                               !.ret = Raises("AttributeError")], FALSE)
                  ELSE BeginConnect(heap, [tk EXCEPT !.idx = 1], well_formed))
    /\ UNCHANGED <<source, config, cleanup_done>>

\* connect(): `await self._stdio_context.__aenter__()` completes or raises.
StdioEnter(t) ==
    /\ task[t].pc = "c_stdio_enter"
    /\ \E ok \in BOOLEAN :
         LET tk == Resume(task[t])
             c == heap[tk.cur]
         IN Apply(t, IF ok
                     THEN Result([heap EXCEPT ![tk.cur] =
                                     [c EXCEPT !.stdio_context = "entered",
                                               !.read_stream = "stream",
                                               !.write_stream = "stream",
                                               !.session_context = "created"]],
                                 [tk EXCEPT !.pc = "c_sess_enter"], FALSE)
                     ELSE CallDisconnect(heap, tk, "connect"))
    /\ UNCHANGED <<source, config, cleanup_done>>

\* connect(): `await self._session_context.__aenter__()` completes or raises;
\* on success the first initialize() is awaited.
SessionEnter(t) ==
    /\ task[t].pc = "c_sess_enter"
    /\ \E ok \in BOOLEAN :
         LET tk == Resume(task[t])
             c == heap[tk.cur]
         IN Apply(t, IF ok
                     THEN Result([heap EXCEPT ![tk.cur] =
                                     [c EXCEPT !.session_context = "entered",
                                               !.session = "live"]],
                                 [tk EXCEPT !.pc = "c_init", !.inits = 1], FALSE)
                     ELSE CallDisconnect(heap, tk, "connect"))
    /\ UNCHANGED <<source, config, cleanup_done>>

\* MoreAttempts giving up one attempt early.
MoreAttempts_OneLess(attempt) == attempt < max_retries - 2

\* The initialize loop's `if attempt < max_retries - 1`: sleep and try again,
\* else raise.
MoreAttempts(attempt) == attempt < max_retries - 1

\* connect(): session.initialize() under asyncio.timeout(10) completes, or
\* raises or times out; a failure of the last attempt is re-raised.
Initialize(t) ==
    /\ task[t].pc = "c_init"
    /\ \E ok \in BOOLEAN :
         LET tk == Resume(task[t]) IN
         Apply(t, IF ok
                  THEN Result(heap, [tk EXCEPT !.pc = "c_list", !.init_ok = TRUE], FALSE)
                  ELSE IF MoreAttempts(tk.attempt)
                  THEN Result(heap, [tk EXCEPT !.pc = "c_sleep"], FALSE)
                  ELSE CallDisconnect(heap, tk, "connect"))
    /\ UNCHANGED <<source, config, cleanup_done>>

\* connect(): asyncio.sleep(1) ends and the next attempt is awaited.
RetrySleep(t) ==
    /\ task[t].pc = "c_sleep"
    /\ Apply(t, Result(heap, [Resume(task[t]) EXCEPT !.pc = "c_init", !.attempt = @ + 1,
                                                     !.inits = @ + 1], FALSE))
    /\ UNCHANGED <<source, config, cleanup_done>>

\* connect(): session.list_tools() under asyncio.timeout(8) raises or times
\* out ("raise"), or answers and normalising tool number `bad` raises (0: none
\* does).  Either way connect() returns True and the manager registers the
\* connection, extends all_tools, counts it and sleeps.
ListTools(t) ==
    /\ task[t].pc = "c_list"
    /\ \E out \in {"raise", "answer"} :
       \E bad \in 0..Len(ServerTools(heap[task[t].cur].server_name)) :
         LET tk == Resume(task[t])
             c == heap[tk.cur]
             s == c.server_name
             tools == IF out = "raise" THEN c.tools
                      ELSE NormalizedTools(ServerTools(s), s, bad)
         IN /\ out = "raise" => bad = 0
            /\ heap' = [heap EXCEPT ![tk.cur] = [c EXCEPT !.tools = tools, !.connected = TRUE]]
            /\ connections' = Put(connections, s, tk.cur)
            /\ all_tools' = all_tools \o tools
            /\ task' = [task EXCEPT ![t] =
                          [tk EXCEPT !.pc = "m_sleep", !.succ = @ + 1, !.cret = "True",
                                     !.disc = IF out = "raise" THEN "list_raised"
                                              ELSE IF bad > 0 THEN "normalize_raised"
                                              ELSE "ok"]]
    /\ UNCHANGED <<source, config, cleanup_done>>

\* connect() is cancelled from outside while suspended after the stdio
\* context was entered: in the session's __aenter__, in initialize(), in the
\* backoff sleep or in list_tools().  asyncio.CancelledError is a
\* BaseException: the `except Exception` clauses of the initialize loop, of
\* the discovery, of connect() and of connect_to_all_servers do not catch it,
\* and asyncio.timeout passes on a cancellation that is not its own.  It
\* leaves connect() and connect_to_all_servers with no handler run.
CancelConnect(t) ==
    /\ task[t].pc \in {"c_sess_enter", "c_init", "c_sleep", "c_list"}
    /\ task' = [task EXCEPT ![t] = [Resume(@) EXCEPT !.pc = "done", !.raised = TRUE,
                                                      !.ret = Raises("CancelledError")]]
    /\ UNCHANGED <<source, config, heap, connections, all_tools, cleanup_done>>

\* connect_to_all_servers: asyncio.sleep(0.5) ends.
SettleSleep(t) ==
    /\ task[t].pc = "m_sleep"
    /\ \E well_formed \in BOOLEAN :
         Apply(t, NextSpec(heap, Resume(task[t]), well_formed))
    /\ UNCHANGED <<source, config, cleanup_done>>

\* disconnect(): the session context's __aexit__ returns, raises or is
\* cancelled; each is swallowed and the finally clause runs.
SessionExit(t) ==
    /\ task[t].pc = "d_sess_exit"
    /\ \E outcome \in {"ok", "error", "cancelled"} :
         LET tk == Released(task[t], outcome)
             d == DisconnectStdio(SessionReleased(heap[tk.cur]))
             h2 == [heap EXCEPT ![tk.cur] = d.conn]
         IN Apply(t, IF d.at = "return" THEN AfterDisconnect(h2, tk)
                     ELSE Result(h2, [tk EXCEPT !.pc = d.at], FALSE))
    /\ UNCHANGED <<source, config, cleanup_done>>

\* disconnect(): the stdio context's __aexit__ returns, raises or is
\* cancelled; then the tools are cleared and disconnect() returns.
StdioExit(t) ==
    /\ task[t].pc = "d_stdio_exit"
    /\ \E outcome \in {"ok", "error", "cancelled"} :
         LET tk == Released(task[t], outcome)
             c == [StdioReleased(heap[tk.cur]) EXCEPT !.tools = <<>>]
         IN Apply(t, AfterDisconnect([heap EXCEPT ![tk.cur] = c], tk))
    /\ UNCHANGED <<source, config, cleanup_done>>

\* cleanup() is called.
Cleanup(t) ==
    /\ Returned(task[t])
    /\ LET tk == Started(task[t], "cleanup") IN
       IF cleanup_done
       THEN /\ task' = [task EXCEPT ![t] = [tk EXCEPT !.pc = "done", !.ret = ReturnNone,
                                                      !.early = TRUE]]
            /\ UNCHANGED <<heap, connections, all_tools, cleanup_done>>
       ELSE /\ cleanup_done' = TRUE
            /\ Apply(t, CleanupLoop(heap, [tk EXCEPT !.snap = Values(connections), !.idx = 1]))
    /\ UNCHANGED <<source, config>>

\* A caller disconnects a registered connection (connection.disconnect()).
Disconnect(t) ==
    /\ Returned(task[t])
    /\ \E i \in 1..Len(connections) :
         Apply(t, CallDisconnect(heap, [Started(task[t], "disconnect") EXCEPT
                                           !.cur = connections[i].conn], "caller"))
    /\ UNCHANGED <<source, config, cleanup_done>>

\* FindTool using the loop variable after the loop: the last entry when none matched.
FindTool_LoopVariable(n) ==
    IF \E i \in 1..Len(all_tools) : all_tools[i].name = n
    THEN CHOOSE i \in 1..Len(all_tools) :
            /\ all_tools[i].name = n
            /\ \A j \in 1..(i - 1) : all_tools[j].name # n
    ELSE Len(all_tools)

\* The first entry of all_tools named n (0: none).
FindTool(n) ==
    IF \E i \in 1..Len(all_tools) : all_tools[i].name = n
    THEN CHOOSE i \in 1..Len(all_tools) :
            /\ all_tools[i].name = n
            /\ \A j \in 1..(i - 1) : all_tools[j].name # n
    ELSE 0

\* CallFailure letting the exception out of call_tool.
CallFailure_Raises(tk) ==
    [tk EXCEPT !.pc = "done", !.raised = TRUE, !.ret = Raises("transport error")]

\* MCPServerManager.call_tool's except clause: whatever connection.call_tool
\* or the parse raised, ToolResponse.failure(None) is returned.
CallFailure(tk) ==
    [tk EXCEPT !.pc = "done", !.raised = TRUE, !.ret = ToolResponse_failure(NoneValue)]

\* A session answers a call as long as its release has not ended; after
\* that a call still awaited on it can only raise (or stay pending).
Answers(c) == c.session # "None"

\* MCPServerManager.call_tool(tk.tool) from its first line up to the await
\* of session.call_tool in MCPServerConnection.call_tool, or to a return.
CallToolBegin(tk) ==
    LET i == FindTool(tk.tool)
        none == [tk EXCEPT !.pc = "done", !.ret = ReturnNone]
    IN IF i = 0 THEN none
       ELSE IF ~Has(connections, all_tools[i].server) THEN none
       ELSE LET id == Get(connections, all_tools[i].server)
                c == heap[id]
            IN IF ~is_connected(c) THEN none
               ELSE IF NotConnected(c)
               THEN CallFailure(tk)
               ELSE [tk EXCEPT !.pc = "k_call", !.cur = id, !.fwd = <<id>>]

\* MCPServerManager.call_tool(n) is called.
CallTool(t) ==
    /\ Returned(task[t])
    /\ \E n \in ToolNames :
         task' = [task EXCEPT ![t] =
                     CallToolBegin([Started(task[t], "call_tool") EXCEPT !.tool = n])]
    /\ UNCHANGED <<source, config, heap, connections, all_tools, cleanup_done>>

\* session.call_tool answers or raises; the answer goes through
\* parse_tool_message, and whatever is raised becomes ToolResponse.failure(None).
ToolReply(t) ==
    /\ task[t].pc = "k_call"
    /\ \E raises \in BOOLEAN : \E r \in Replies :
         LET tk == Resume(task[t])
             p == parse_tool_message(r)
         IN /\ raises \/ Answers(heap[tk.cur])
            /\ task' = [task EXCEPT ![t] =
                 IF raises THEN CallFailure(tk)
                 ELSE IF p.raised THEN CallFailure([tk EXCEPT !.reply = r])
                 ELSE [tk EXCEPT !.pc = "done", !.reply = r, !.ret = p.value]]
            /\ heap' = IF raises THEN [heap EXCEPT ![tk.cur] = AfterCallError(@)] ELSE heap
    /\ UNCHANGED <<source, config, connections, all_tools, cleanup_done>>

\* ------------------------------------------------- openai_query_handler
\* One output of the model's response: a message, a function call of a tool
\* name (followup: whether the follow-up response to its result has
\* content), or an output of another type.
MessageOutput == [type |-> "message", name |-> 0, followup |-> FALSE]
FunctionCall(n, f) == [type |-> "function_call", name |-> n, followup |-> f]
OtherOutput == [type |-> "reasoning", name |-> 0, followup |-> FALSE]
Outputs ==
    {MessageOutput, OtherOutput} \cup { FunctionCall(n, f) : n \in ToolNames, f \in BOOLEAN }
Responses == UNION { [1..k -> Outputs] : k \in 0..MaxOutputs }

\* str.strip() on a text of tokens, "\n" being the whitespace among them.
RECURSIVE strip(_)
strip(x) ==
    IF x = <<>> THEN x
    ELSE IF Head(x) = "\n" THEN strip(Tail(x))
    ELSE IF x[Len(x)] = "\n" THEN strip(SubSeq(x, 1, Len(x) - 1))
    ELSE x

\* The handler's return value.
ReturnStr(x) == [kind |-> "str", success |-> FALSE, content |-> Str(x)]

\* openai_query_handler after `result = await server_manager.call_tool(...)`
\* with result r (r.kind "None": call_tool returned None), and its for loop
\* from output number tk.opos, up to the next await that suspends, the
\* return or the exception.  `result.get` on None raises AttributeError,
\* which the `except RuntimeError` around the call does not cover.
RECURSIVE HandlerLoop(_)
AfterToolCall(tk, r) ==
    IF r.kind = "None"
    THEN [tk EXCEPT !.pc = "done", !.raised = TRUE, !.ret = Raises("AttributeError")]
    ELSE IF r.success /\ ~r.content.is_none /\ r.content.text # <<>>
            /\ tk.outputs[tk.opos].followup
    THEN HandlerLoop([tk EXCEPT !.text = @ \o <<"\n", "followup">>, !.opos = @ + 1])
    ELSE HandlerLoop([tk EXCEPT !.opos = @ + 1])

HandlerLoop(tk) ==
    IF tk.opos > Len(tk.outputs)
    THEN [tk EXCEPT !.pc = "done",
                    !.ret = IF tk.text # <<>> THEN ReturnStr(strip(tk.text))
                            ELSE ReturnStr(<<"Sorry, I could not get a response.">>)]
    ELSE LET o == tk.outputs[tk.opos] IN
         IF o.type = "message"
         THEN HandlerLoop([tk EXCEPT !.text = @ \o <<"message">>, !.opos = @ + 1])
         ELSE IF o.type = "function_call"
         THEN LET k == CallToolBegin([tk EXCEPT !.tool = o.name]) IN
              IF k.pc = "k_call"
              THEN [tk EXCEPT !.pc = "q_call", !.tool = o.name, !.cur = k.cur, !.fwd = k.fwd]
              ELSE AfterToolCall([tk EXCEPT !.tool = o.name], k.ret)
         ELSE HandlerLoop([tk EXCEPT !.opos = @ + 1])

\* openai_query_handler(query, server_manager) is called; the model answers
\* with a response.
QueryHandler(t) ==
    /\ Returned(task[t])
    /\ \E response \in Responses :
         task' = [task EXCEPT ![t] =
                     HandlerLoop([Started(task[t], "query") EXCEPT !.outputs = response,
                                                                   !.opos = 1])]
    /\ UNCHANGED <<source, config, heap, connections, all_tools, cleanup_done>>

\* The call_tool the handler awaits ends: session.call_tool raised, or
\* answered and the answer went through parse_tool_message.
QueryToolReply(t) ==
    /\ task[t].pc = "q_call"
    /\ \E raises \in BOOLEAN : \E r \in Replies :
         LET tk == Resume(task[t])
             p == parse_tool_message(r)
         IN /\ raises \/ Answers(heap[tk.cur])
            /\ task' = [task EXCEPT ![t] =
                 AfterToolCall(tk, IF raises \/ p.raised THEN CallFailure(tk).ret
                                   ELSE p.value)]
            /\ heap' = IF raises THEN [heap EXCEPT ![tk.cur] = AfterCallError(@)] ELSE heap
    /\ UNCHANGED <<source, config, connections, all_tools, cleanup_done>>

\* A caller calls MCPServerConnection.call_tool on a connection object: the
\* RuntimeError, or the await of session.call_tool.  The tool name is handed
\* to the session as it is and decides nothing here.
ConnectionCallTool(t) ==
    /\ Returned(task[t])
    /\ \E id \in 1..Len(heap) :
         LET tk == [Started(task[t], "conn_call") EXCEPT !.cur = id] IN
         task' = [task EXCEPT ![t] =
              IF NotConnected(heap[id])
              THEN [tk EXCEPT !.pc = "done", !.raised = TRUE,
                              !.ret = Raises("RuntimeError: not connected")]
              ELSE [tk EXCEPT !.pc = "n_call", !.fwd = <<id>>]]
    /\ UNCHANGED <<source, config, heap, connections, all_tools, cleanup_done>>

\* Reraised sending the call once more before giving up.
Reraised_Retries(tk) ==
    IF Len(tk.fwd) < 2 THEN [tk EXCEPT !.fwd = Append(@, tk.cur)]
    ELSE [tk EXCEPT !.pc = "done", !.raised = TRUE, !.ret = Raises("transport error")]

\* MCPServerConnection.call_tool's except clause: print, and `raise`.
Reraised(tk) == [tk EXCEPT !.pc = "done", !.raised = TRUE, !.ret = Raises("transport error")]

\* MCPServerConnection.call_tool: session.call_tool answers, and the result
\* is returned as it is, or raises, and the exception is raised again.
ConnectionToolReply(t) ==
    /\ task[t].pc = "n_call"
    /\ \E raises \in BOOLEAN : \E r \in {NoneReply, Reply(<<Fragment("a")>>)} :
         LET tk == Resume(task[t]) IN
         /\ task' = [task EXCEPT ![t] =
              IF raises THEN Reraised(tk)
              ELSE [tk EXCEPT !.pc = "done", !.reply = r, !.ret = ReturnResult]]
         /\ heap' = IF raises THEN [heap EXCEPT ![tk.cur] = AfterCallError(@)] ELSE heap
    /\ UNCHANGED <<source, config, connections, all_tools, cleanup_done>>

\* One caller: every operation is awaited to its end before the next is
\* called.  (connect() catches Exception and its handler's disconnect()
\* raises nothing, so the `except Exception` of connect_to_all_servers
\* never runs and has no action.)
Next ==
    \/ ConnectToAllServers(1)
    \/ StdioEnter(1)
    \/ SessionEnter(1)
    \/ Initialize(1)
    \/ RetrySleep(1)
    \/ ListTools(1)
    \/ SettleSleep(1)
    \/ SessionExit(1)
    \/ StdioExit(1)
    \/ Cleanup(1)
    \/ Disconnect(1)
    \/ CallTool(1)
    \/ ToolReply(1)

Spec == Init /\ [][Next]_vars

\* The same caller calling a connection's own call_tool instead of the
\* manager's.
NextConnection ==
    \/ ConnectToAllServers(1)
    \/ StdioEnter(1)
    \/ SessionEnter(1)
    \/ Initialize(1)
    \/ RetrySleep(1)
    \/ ListTools(1)
    \/ SettleSleep(1)
    \/ SessionExit(1)
    \/ StdioExit(1)
    \/ Cleanup(1)
    \/ Disconnect(1)
    \/ ConnectionCallTool(1)
    \/ ConnectionToolReply(1)

SpecConnection == Init /\ [][NextConnection]_vars

\* The same caller using the manager's own operations only.
NextManager ==
    \/ ConnectToAllServers(1)
    \/ StdioEnter(1)
    \/ SessionEnter(1)
    \/ Initialize(1)
    \/ RetrySleep(1)
    \/ ListTools(1)
    \/ SettleSleep(1)
    \/ SessionExit(1)
    \/ StdioExit(1)
    \/ Cleanup(1)
    \/ CallTool(1)
    \/ ToolReply(1)

SpecManager == Init /\ [][NextManager]_vars

\* The manager's operations with the progress the code guarantees: the
\* awaits under asyncio.timeout (initialize, list_tools) and the two sleeps
\* end.  Nothing bounds the __aenter__ and __aexit__ of the two contexts or
\* session.call_tool, so those may stay pending for ever, and nothing makes
\* a caller call again.
Progress ==
    /\ WF_vars(Initialize(1))
    /\ WF_vars(RetrySleep(1))
    /\ WF_vars(ListTools(1))
    /\ WF_vars(SettleSleep(1))

SpecLive == Init /\ [][NextManager]_vars /\ Progress

\* Two tasks.  Task 1 owns the connections: it connects once, as agent.py
\* does, disconnects and cleans up; task 2 is a request calling tools.  A task runs from one await to the next, and at every await
\* either task may be the one that resumes.
FirstRun(t) == heap = <<>> /\ ConnectToAllServers(t)

NextConcurrent ==
    \/ FirstRun(1)
    \/ StdioEnter(1)
    \/ SessionEnter(1)
    \/ Initialize(1)
    \/ RetrySleep(1)
    \/ ListTools(1)
    \/ SettleSleep(1)
    \/ SessionExit(1)
    \/ StdioExit(1)
    \/ Cleanup(1)
    \/ Disconnect(1)
    \/ CallTool(2)
    \/ ToolReply(2)

SpecConcurrent == Init /\ [][NextConcurrent]_vars

\* Two tasks calling tools, before, while and after task 1 connects.
NextCalls ==
    \/ FirstRun(1)
    \/ StdioEnter(1)
    \/ SessionEnter(1)
    \/ Initialize(1)
    \/ RetrySleep(1)
    \/ ListTools(1)
    \/ SettleSleep(1)
    \/ CallTool(1)
    \/ ToolReply(1)
    \/ CallTool(2)
    \/ ToolReply(2)

SpecCalls == Init /\ [][NextCalls]_vars

\* Two tasks on one manager: task 1 runs connect_to_all_servers once and
\* may clean up afterwards, task 2 (a shutdown handler) calls cleanup() at
\* any time, the suspension points of task 1 included.
NextInterleaved ==
    \/ FirstRun(1)
    \/ StdioEnter(1)
    \/ SessionEnter(1)
    \/ Initialize(1)
    \/ RetrySleep(1)
    \/ ListTools(1)
    \/ SettleSleep(1)
    \/ SessionExit(1)
    \/ StdioExit(1)
    \/ Cleanup(1)
    \/ Cleanup(2)
    \/ SessionExit(2)
    \/ StdioExit(2)

SpecInterleaved == Init /\ [][NextInterleaved]_vars

\* The manager's operations, with a caller that may cancel the task running
\* connect_to_all_servers.
NextCancel ==
    \/ ConnectToAllServers(1)
    \/ StdioEnter(1)
    \/ SessionEnter(1)
    \/ Initialize(1)
    \/ RetrySleep(1)
    \/ ListTools(1)
    \/ SettleSleep(1)
    \/ CancelConnect(1)
    \/ SessionExit(1)
    \/ StdioExit(1)
    \/ Cleanup(1)

SpecCancel == Init /\ [][NextCancel]_vars

\* brief_bot.py: main connects once, then messages are handled; a caller
\* may disconnect a server in between.
NextQuery ==
    \/ FirstRun(1)
    \/ StdioEnter(1)
    \/ SessionEnter(1)
    \/ Initialize(1)
    \/ RetrySleep(1)
    \/ ListTools(1)
    \/ SettleSleep(1)
    \/ SessionExit(1)
    \/ StdioExit(1)
    \/ Disconnect(1)
    \/ QueryHandler(1)
    \/ QueryToolReply(1)

SpecQuery == Init /\ [][NextQuery]_vars

\* The manager's operations on any configuration source.
InitSource ==
    /\ source \in Sources
    /\ config \in { [i \in 1..n |-> i] : n \in 0..NumServers }
    /\ source # "servers" => config = <<>>
    /\ heap = <<>>
    /\ connections = <<>>
    /\ all_tools = <<>>
    /\ cleanup_done = FALSE
    /\ task = [t \in Tasks |-> IdleTask]

SpecSource == InitSource /\ [][NextManager]_vars

\* ------------------------------------------------ parse_tool_message alone
\* The fragments a reply may hold, and the replies parse_tool_message is
\* called with: None, or up to MaxFragments fragments.
Fragments ==
    { Fragment(BooleanMessage_failure), Fragment(BooleanMessage_success),
      Fragment("a"), Fragment("b"), NoTextFragment }
ParseInputs ==
    {NoneReply} \cup { Reply(c) : c \in UNION { [1..n -> Fragments] : n \in 0..MaxFragments } }

\* A caller about to call manager.parse_tool_message(result) on a new manager.
InitParse ==
    /\ source = "servers"
    /\ config = <<>>
    /\ heap = <<>>
    /\ connections = <<>>
    /\ all_tools = <<>>
    /\ cleanup_done = FALSE
    /\ \E r \in ParseInputs :
         task = [t \in Tasks |-> IF t = 1
                                 THEN [IdleTask EXCEPT !.op = "parse", !.pc = "p_call", !.reply = r]
                                 ELSE IdleTask]

\* parse_tool_message(result) runs: the ToolResponse dict it returns, or the
\* AttributeError of `result.content[0].text`.
ParseToolMessage(t) ==
    /\ task[t].pc = "p_call"
    /\ LET p == parse_tool_message(task[t].reply) IN
       task' = [task EXCEPT ![t] =
           IF p.raised
           THEN [@ EXCEPT !.pc = "done", !.raised = TRUE, !.ret = Raises("AttributeError")]
           ELSE [@ EXCEPT !.pc = "done", !.ret = p.value]]
    /\ UNCHANGED <<source, config, heap, connections, all_tools, cleanup_done>>

NextParse == ParseToolMessage(1)

SpecParse == InitParse /\ [][NextParse]_vars

\* ---------------------------------------------- telegram_message_handler
\* A response is a string of characters, "\n" among them.
Chars == {"x", "\n"}
ResponseTexts == UNION { [1..n -> Chars] : n \in 0..MaxResponseLen }

\* str.splitlines(keepends=True): a line ends after each "\n"; what follows
\* the last "\n" is a line if it is not empty.
RECURSIVE splitlines(_, _)
splitlines(x, line) ==
    IF x = <<>> THEN (IF line = <<>> THEN <<>> ELSE <<line>>)
    ELSE IF Head(x) = "\n" THEN <<Append(line, "\n")>> \o splitlines(Tail(x), <<>>)
    ELSE splitlines(Tail(x), Append(line, Head(x)))

\* The chunking loop over the lines from number i on, and the
\* `if current: parts.append(current)` after it.
RECURSIVE Chunks(_, _, _, _)
Chunks(lines, i, current, parts) ==
    IF i > Len(lines)
    THEN (IF current # <<>> THEN Append(parts, current) ELSE parts)
    ELSE IF Len(current) + Len(lines[i]) > MAX_MESSAGE_LENGTH
    THEN Chunks(lines, i + 1, lines[i], Append(parts, current))
    ELSE Chunks(lines, i + 1, current \o lines[i], parts)

\* The texts the handler sends for a response.
split_response(x) ==
    IF Len(x) <= MAX_MESSAGE_LENGTH THEN <<x>>
    ELSE Chunks(splitlines(x, <<>>), 1, <<>>, <<>>)

\* telegram_message_handler when openai_query_handler has returned r.
InitSplit ==
    /\ source = "servers"
    /\ config = <<>>
    /\ heap = <<>>
    /\ connections = <<>>
    /\ all_tools = <<>>
    /\ cleanup_done = FALSE
    /\ \E r \in ResponseTexts :
         task = [t \in Tasks |-> IF t = 1
                                 THEN [IdleTask EXCEPT !.op = "telegram", !.pc = "t_call",
                                                       !.response_text = r]
                                 ELSE IdleTask]

\* The handler splits the response, up to its first reply_text.
SplitResponse(t) ==
    /\ task[t].pc = "t_call"
    /\ LET tk == task[t] IN
       task' = [task EXCEPT ![t] =
                   [tk EXCEPT !.pc = "t_send", !.parts = split_response(tk.response_text)]]
    /\ UNCHANGED <<source, config, heap, connections, all_tools, cleanup_done>>

\* `await update.message.reply_text(part)` for the next part.
ReplyText(t) ==
    /\ task[t].pc = "t_send"
    /\ LET tk == task[t]
           sent == Append(tk.sent, tk.parts[Len(tk.sent) + 1])
       IN task' = [task EXCEPT ![t] =
                     [tk EXCEPT !.sent = sent,
                                !.pc = IF Len(sent) = Len(tk.parts) THEN "done" ELSE "t_send",
                                !.ret = IF Len(sent) = Len(tk.parts) THEN ReturnNone ELSE @]]
    /\ UNCHANGED <<source, config, heap, connections, all_tools, cleanup_done>>

NextSplit == SplitResponse(1) \/ ReplyText(1)

SpecSplit == InitSplit /\ [][NextSplit]_vars

\* ------------------------------------------- the env of a spec, resolved
\* An env value is a string of tokens: the opener "${", the closer "}" and
\* the letters A and B.
Tokens == {"${", "}", "A", "B"}
EnvValues == UNION { [1..n -> Tokens] : n \in 0..MaxValueLen }
\* The process environment sets any of the names A and B; name n has the
\* value "=" n.
Environs == SUBSET { <<"A">>, <<"B">> }
getenv(environ, name) == IF name \in environ THEN Str(<<"=">> \o name) ELSE NoneValue

\* value.startswith("${") and value.endswith("}"): the opener is two
\* characters and the closer one, so a value that is the opener alone fails it.
LooksLikeTemplate(value) ==
    Len(value) >= 2 /\ value[1] = "${" /\ value[Len(value)] = "}"

\* The value of the dict comprehension for one env value: os.getenv(value[2:-1])
\* or the value itself.
resolved_env(environ, value) ==
    IF LooksLikeTemplate(value)
    THEN getenv(environ, SubSeq(value, 2, Len(value) - 1))
    ELSE Str(value)

\* connect() about to resolve one env value of its spec.
InitEnv ==
    /\ source = "servers"
    /\ config = <<>>
    /\ heap = <<>>
    /\ connections = <<>>
    /\ all_tools = <<>>
    /\ cleanup_done = FALSE
    /\ \E v \in EnvValues : \E e \in Environs :
         task = [t \in Tasks |-> IF t = 1
                                 THEN [IdleTask EXCEPT !.op = "resolve_env", !.pc = "e_call",
                                                       !.value = v, !.environ = e]
                                 ELSE IdleTask]

\* The value is resolved.
ResolveEnv(t) ==
    /\ task[t].pc = "e_call"
    /\ LET tk == task[t] IN
       task' = [task EXCEPT ![t] =
           [tk EXCEPT !.pc = "done",
                      !.ret = [kind |-> "value", success |-> FALSE,
                               content |-> resolved_env(tk.environ, tk.value)]]]
    /\ UNCHANGED <<source, config, heap, connections, all_tools, cleanup_done>>

NextEnv == ResolveEnv(1)

SpecEnv == InitEnv /\ [][NextEnv]_vars

\* ----------------------------------------------------------- properties
\* What the properties call a connection's state, in the fields' own terms.
Closed(c) == ~c.connected /\ c.session_context = "None" /\ c.stdio_context = "None"
NoResources(c) ==
    /\ c.session = "None" /\ c.session_context = "None" /\ c.stdio_context = "None"
    /\ c.read_stream = "None" /\ c.write_stream = "None"
Live(c) == c.connected /\ c.session # "None"
Registered == { connections[i].conn : i \in 1..Len(connections) }
ManagerState == <<heap, connections, all_tools, cleanup_done>>
Catalogued(n) == \E i \in 1..Len(all_tools) : all_tools[i].name = n
\* The first catalogue entry named n.
Entry(n) ==
    all_tools[CHOOSE i \in 1..Len(all_tools) :
                 all_tools[i].name = n /\ \A j \in 1..Len(all_tools) :
                                              all_tools[j].name = n => i <= j]
\* The tool lists of the registered connections, one after the other.
RegisteredTools ==
    LET RECURSIVE Cat(_)
        Cat(i) == IF i = 0 THEN <<>> ELSE Cat(i - 1) \o heap[connections[i].conn].tools
    IN Cat(Len(connections))

\* C1: when a run of connect_to_all_servers has returned, connect() was
\* called once for each spec of the configuration, in order, and the number
\* of successes the run counted is the number of connections in the table.
C1_SuccessCountIsTableSize ==
    \A t \in Tasks :
        (task[t].op = "connect_all" /\ task[t].pc = "done") =>
            /\ task[t].attempted = config
            /\ task[t].succ = Len(connections)

\* C2: a connect() whose initialize failed on all 3 attempts never makes the
\* connection connected and does not return True, and once it has returned
\* the connection holds no session, context or stream.
HandshakeExhausted(tk) ==
    /\ tk.op = "connect_all" /\ tk.cur > 0
    /\ tk.inits = max_retries /\ ~tk.init_ok /\ tk.pc # "c_init"
C2_FailedHandshakeLeavesNothing ==
    \A t \in Tasks :
        HandshakeExhausted(task[t]) =>
            /\ ~heap[task[t].cur].connected
            /\ ~Live(heap[task[t].cur])
            /\ task[t].cret # "True"
            /\ task[t].cret = "False" => NoResources(heap[task[t].cur])
C2_Witness ==
    \E t \in Tasks :
        /\ HandshakeExhausted(task[t])
        /\ task[t].cret = "False"
        /\ heap[task[t].cur].session_exits = 1 /\ heap[task[t].cur].stdio_exits = 1

\* C3: a connect() whose tool discovery failed (list_tools raised or timed
\* out, or normalising a listed tool raised) has left the connection
\* connected with an empty tool list.
C3_FailedDiscoveryLeavesNoTools ==
    \A t \in Tasks :
        ( /\ task[t].op = "connect_all" /\ task[t].cret = "True"
          /\ task[t].disc \in {"list_raised", "normalize_raised"} ) =>
            /\ heap[task[t].cur].connected
            /\ heap[task[t].cur].tools = <<>>

\* C4: when a cleanup() that found _cleanup_done unset returns, the table and
\* the catalogue are empty; a cleanup() called right after a cleanup()
\* returned returns at once, calls no disconnect and changes nothing of the
\* manager or of any connection.
C4_CleanupTwice ==
    [][ \A t \in Tasks :
          /\ (task'[t].op = "cleanup" /\ task'[t].pc = "done" /\ ~task'[t].early) =>
                (connections' = <<>> /\ all_tools' = <<>>)
          /\ (task[t].op = "cleanup" /\ task[t].pc = "done" /\ task'[t].op = "cleanup") =>
                /\ task'[t].pc = "done" /\ task'[t].dinv = <<>>
                /\ ManagerState' = ManagerState
      ]_vars
C4_Witness ==
    \E t \in Tasks :
        /\ task[t].op = "cleanup" /\ task[t].pc = "done" /\ task[t].again
        /\ connections = <<>> /\ all_tools = <<>>
        /\ \E i \in 1..Len(heap) : heap[i].session_exits = 1 /\ heap[i].stdio_exits = 1

\* C5: in a run of connect_to_all_servers, every step but the registration
\* of a connection whose connect() succeeded leaves the table, the catalogue
\* and the registered connections as they were, and when the run returns
\* connect() has been called for every spec, whichever of them failed.
C5_FailureIsContained ==
    [][ \A t \in Tasks :
          (task'[t].op = "connect_all" /\ task[t].pc # "c_list") =>
              /\ connections' = connections
              /\ all_tools' = all_tools
              /\ \A id \in Registered : heap'[id] = heap[id]
              /\ task'[t].pc = "done" => task'[t].attempted = config
      ]_vars
\* The first spec failed, the second was attempted and registered.
C5_Witness ==
    \E t \in Tasks :
        /\ task[t].op = "connect_all" /\ task[t].pc = "done"
        /\ Len(config) = 2 /\ Len(heap) = 2
        /\ Closed(heap[1]) /\ heap[1].stdio_exits = 1
        /\ connections = <<[name |-> 2, conn |-> 2]>>
        /\ all_tools = heap[2].tools /\ all_tools # <<>>

\* C6: MCPServerManager.call_tool for a name that is not in the catalogue
\* returns None at once, sends nothing to any session and changes nothing.
C6_MissingToolTouchesNothing ==
    [][ \A t \in Tasks :
          ( /\ Returned(task[t]) /\ task'[t].op = "call_tool"
            /\ ~Catalogued(task'[t].tool) ) =>
              /\ task'[t].pc = "done"
              /\ task'[t].ret = ReturnNone
              /\ task'[t].fwd = <<>>
              /\ ManagerState' = ManagerState
      ]_vars
\* A missing tool was asked of a manager with a live connection and tools.
C6_Witness ==
    \E t \in Tasks :
        /\ task[t].op = "call_tool" /\ task[t].pc = "done"
        /\ ~Catalogued(task[t].tool)
        /\ task[t].ret = ReturnNone
        /\ all_tools # <<>>
        /\ \E id \in Registered : Live(heap[id])

\* C7: MCPServerManager.call_tool for a catalogued name whose owner (the
\* connection registered under the server of the first entry of that name)
\* is missing or not live returns None and sends nothing; when the owner is
\* live the call is sent to that connection's session only, and what is
\* returned is parse_tool_message of the reply, or ToolResponse.failure(None)
\* when the call or the parse raised.
C7_CallGoesToLiveOwner ==
    [][ \A t \in Tasks :
          /\ ( /\ Returned(task[t]) /\ task'[t].op = "call_tool"
               /\ Catalogued(task'[t].tool) ) =>
                 LET s == Entry(task'[t].tool).server IN
                 /\ ManagerState' = ManagerState
                 /\ IF Has(connections, s) /\ Live(heap[Get(connections, s)])
                    THEN /\ task'[t].pc = "k_call"
                         /\ task'[t].fwd = <<Get(connections, s)>>
                    ELSE /\ task'[t].pc = "done"
                         /\ task'[t].ret = ReturnNone
                         /\ task'[t].fwd = <<>>
          /\ task[t].pc = "k_call" =>
                 /\ ManagerState' = ManagerState
                 /\ task'[t].pc = "done"
                 /\ task'[t].fwd = task[t].fwd
                 /\ task'[t].ret = IF task'[t].raised THEN ToolResponse_failure(NoneValue)
                                    ELSE parse_tool_message(task'[t].reply).value
      ]_vars
\* A catalogued tool was asked for after its owner had been disconnected.
C7_Witness ==
    \E t \in Tasks :
        /\ task[t].op = "call_tool" /\ task[t].pc = "done"
        /\ Catalogued(task[t].tool)
        /\ Has(connections, Entry(task[t].tool).server)
        /\ ~Live(heap[Get(connections, Entry(task[t].tool).server)])
        /\ task[t].ret = ReturnNone /\ task[t].fwd = <<>>

\* C8: whenever no operation is in progress, every catalogue entry belongs
\* to a server that is registered and connected, and the catalogue is the
\* registered connections' tool lists one after the other.
C8_CatalogMatchesConnections ==
    (\A t \in Tasks : Returned(task[t])) =>
        /\ \A i \in 1..Len(all_tools) :
              /\ Has(connections, all_tools[i].server)
              /\ Live(heap[Get(connections, all_tools[i].server)])
        /\ all_tools = RegisteredTools

\* C9: no two connections of the same server name both hold a live session
\* or an entered stdio context.
HoldsLiveResources(c) == c.session = "live" \/ c.stdio_context = "entered"
C9_OneLiveConnectionPerName ==
    \A i, j \in 1..Len(heap) :
        (i # j /\ heap[i].server_name = heap[j].server_name) =>
            ~(HoldsLiveResources(heap[i]) /\ HoldsLiveResources(heap[j]))

\* C10: a disconnect() called on a closed connection returns at once having
\* invoked no release and changed no field, and a disconnect() that has
\* returned leaves the connection closed, so that a second one is that no-op.
C10_DisconnectIdempotent ==
    \A t \in Tasks :
        /\ \A k \in 1..Len(task[t].dinv) :
              Closed(task[t].dinv[k].pre) =>
                  /\ task[t].dinv[k].post = task[t].dinv[k].pre
                  /\ task[t].dinv[k].at = "return"
        /\ (task[t].op = "disconnect" /\ task[t].pc = "done") =>
              /\ Closed(heap[task[t].cur])
              /\ NoResources(heap[task[t].cur])
\* disconnect() was called on a connection an earlier disconnect() had closed.
C10_Witness ==
    \E t \in Tasks : \E k \in 1..Len(task[t].dinv) :
        /\ Closed(task[t].dinv[k].pre)
        /\ task[t].dinv[k].pre.session_exits = 1
        /\ task[t].dinv[k].pre.stdio_exits = 1
        /\ heap[task[t].dinv[k].conn] = task[t].dinv[k].pre

\* C11: when a cleanup() that found _cleanup_done unset returns, it returns
\* None and raises nothing, and every connection that was registered when it
\* was called has had both its releases invoked and is closed with no
\* resource and no tool left, whichever release steps raised or were cancelled.
C11_CleanupReachesEveryConnection ==
    \A t \in Tasks :
        (task[t].op = "cleanup" /\ task[t].pc = "done" /\ ~task[t].early) =>
            /\ task[t].ret = ReturnNone /\ ~task[t].raised
            /\ \A k \in 1..Len(task[t].snap) :
                  LET c == heap[task[t].snap[k]] IN
                  /\ Closed(c) /\ NoResources(c) /\ c.tools = <<>>
                  /\ c.session_exits = 1 /\ c.stdio_exits = 1
\* Both releases of the first of two registered connections failed, and the
\* second was disconnected all the same.
C11_Witness ==
    \E t \in Tasks :
        /\ task[t].op = "cleanup" /\ task[t].pc = "done"
        /\ Len(task[t].snap) = 2
        /\ task[t].tfail = {task[t].snap[1]}
        /\ Closed(heap[task[t].snap[2]]) /\ heap[task[t].snap[2]].stdio_exits = 1

\* C12: MCPServerConnection.call_tool on a connection that is connected with
\* a live session sends the call to that connection's session; on any other
\* connection it raises the "not connected" RuntimeError at once and sends
\* nothing.  Either way no field of the manager or of a connection changes.
C12_CallNeedsLiveConnection ==
    [][ \A t \in Tasks :
          (Returned(task[t]) /\ task'[t].op = "conn_call") =>
              /\ ManagerState' = ManagerState
              /\ IF Live(heap[task'[t].cur])
                 THEN /\ task'[t].pc = "n_call"
                      /\ task'[t].fwd = <<task'[t].cur>>
                 ELSE /\ task'[t].pc = "done"
                      /\ task'[t].ret = Raises("RuntimeError: not connected")
                      /\ task'[t].fwd = <<>>
      ]_vars
\* The call was made on a connection that had been connected and disconnected.
C12_Witness ==
    \E t \in Tasks :
        /\ task[t].op = "conn_call" /\ task[t].pc = "done"
        /\ task[t].ret = Raises("RuntimeError: not connected") /\ task[t].fwd = <<>>
        /\ heap[task[t].cur].session_exits = 1 /\ heap[task[t].cur].stdio_exits = 1
        /\ Closed(heap[task[t].cur])

\* C13: parse_tool_message gives Failure with no payload for a reply with no
\* content and for a reply whose only fragment is the failure sentinel,
\* Success with no payload for a reply whose only fragment is the success
\* sentinel, and Success with a payload for every other reply.
IsSuccessWithPayload(ret) ==
    ret.kind = "ToolResponse" /\ ret.success /\ ~ret.content.is_none
C13_ReplyClassification ==
    \A t \in Tasks :
        (task[t].op = "parse" /\ task[t].pc = "done") =>
            LET r == task[t].reply IN
            IF r.is_none \/ Len(r.content) = 0
                THEN task[t].ret = ToolResponse_failure(NoneValue)
            ELSE IF r.content = <<Fragment(BooleanMessage_failure)>>
                THEN task[t].ret = ToolResponse_failure(NoneValue)
            ELSE IF r.content = <<Fragment(BooleanMessage_success)>>
                THEN task[t].ret = ToolResponse_success(NoneValue)
            ELSE IsSuccessWithPayload(task[t].ret)

\* C14: for a reply whose first fragment is no sentinel, the payload of
\* parse_tool_message is the fragments in order with one newline between
\* neighbours, none before the first and none after the last.
FragmentText(f) == IF f.has_text THEN f.text ELSE "repr"
NewlineJoined(content) ==
    LET RECURSIVE J(_)
        J(i) == IF i = 1 THEN <<FragmentText(content[1])>>
                ELSE J(i - 1) \o <<"\n", FragmentText(content[i])>>
    IN J(Len(content))
C14_PayloadIsNewlineJoined ==
    \A t \in Tasks :
        ( /\ task[t].op = "parse" /\ task[t].pc = "done"
          /\ ~task[t].reply.is_none /\ Len(task[t].reply.content) >= 1
          /\ task[t].reply.content[1].has_text
          /\ task[t].reply.content[1].text
                \notin {BooleanMessage_failure, BooleanMessage_success} ) =>
            task[t].ret = ToolResponse_success(Str(NewlineJoined(task[t].reply.content)))

\* C15: when session.call_tool raises during MCPServerManager.call_tool, the
\* caller gets that error raised to it, no connect is started and the
\* manager and its connections are left as they were.
TransportErrorSeen(tk) ==
    \* the call was sent, raised, and no reply was received
    tk.op = "call_tool" /\ tk.fwd # <<>> /\ tk.raised /\ tk.reply = NoReply
C15_TransportErrorPropagates ==
    [][ \A t \in Tasks :
          (task[t].pc = "k_call" /\ TransportErrorSeen(task'[t])) =>
              /\ task'[t].pc = "done"
              /\ task'[t].ret = Raises("transport error")
              /\ ManagerState' = ManagerState
      ]_vars

\* C16: a connect() that has been started eventually returns or, having
\* failed, is running its teardown, even when the entering of a context or a
\* step after it never completes.
InConnect(tk) == tk.op = "connect_all" /\ tk.pc # "done" /\ tk.cur > 0 /\ tk.cret = "none"
InTeardown(tk) == tk.pc \in {"d_sess_exit", "d_stdio_exit"}
C16_ConnectEventuallyAborts ==
    \A t \in Tasks :
        [](InConnect(task[t]) => <>(task[t].cret # "none" \/ InTeardown(task[t])))

\* C17: every MCPServerManager.call_tool and every cleanup() eventually
\* returns, even when session.call_tool never answers or a release of a
\* context never completes.
C17_CallersNeverWaitForEver ==
    \A t \in Tasks :
        []((task[t].op \in {"call_tool", "cleanup"}) => <>(task[t].pc = "done"))

\* C18: while a connect() is entering its stdio context or its session
\* context, or is tearing down after one of them raised, no step changes the
\* table, the catalogue, the success count or another connection; and when
\* that connect() returns False, each context that was created has been
\* released once, the connection is closed with its session, contexts and
\* streams cleared and no tools, it is not registered, and the loop goes on.
BeforeHandshake(tk) ==
    /\ tk.op = "connect_all" /\ tk.inits = 0
    /\ tk.pc \in {"c_stdio_enter", "c_sess_enter", "d_sess_exit", "d_stdio_exit"}
C18_LaunchFailureIsTornDown ==
    [][ \A t \in Tasks :
          BeforeHandshake(task[t]) =>
              LET id == task[t].cur IN
              /\ connections' = connections /\ all_tools' = all_tools
              /\ task'[t].succ = task[t].succ
              /\ \A j \in 1..Len(heap) : j # id => heap'[j] = heap[j]
              /\ task'[t].cret # "True"
              /\ task'[t].cret = "False" =>
                    /\ Closed(heap'[id]) /\ NoResources(heap'[id])
                    /\ heap'[id].tools = <<>>
                    /\ heap'[id].stdio_exits = 1 /\ heap'[id].session_exits <= 1
                    /\ id \notin Registered'
                    /\ task'[t].pc = "m_sleep"
      ]_vars
\* The session of the second server could not be opened, next to a first
\* server that is connected.
C18_Witness ==
    \E t \in Tasks :
        /\ task[t].op = "connect_all" /\ task[t].cret = "False" /\ task[t].inits = 0
        /\ task[t].cur = 2 /\ task[t].succ = 1
        /\ heap[2].session_exits = 1 /\ heap[2].stdio_exits = 1 /\ NoResources(heap[2])
        /\ connections = <<[name |-> 1, conn |-> 1]>> /\ Live(heap[1])

\* C19: servers 1 (A) and 2 (B) are configured, in the one run made A has
\* connected and listed its tools and B's command could not be launched.
\* Then the run counts one success and returns True with A alone registered;
\* call_tool for tool 3, which B alone exposes, returns None and sends
\* nothing; call_tool for a tool of A is sent to A's session only and returns
\* parse_tool_message of A's reply, or ToolResponse.failure(None) when the
\* call or the parse raised.
NeverLaunched(c) ==
    /\ c.stdio_context \in {"None", "created"} /\ c.session_context = "None"
    /\ c.session_exits = 0
OneUpOneDown ==
    /\ config = <<1, 2>> /\ Len(heap) = 2
    /\ Live(heap[1]) /\ heap[1].tools = NormalizedTools(ServerTools(1), 1, 0)
    /\ NeverLaunched(heap[2]) /\ Closed(heap[2])
C19_OneUpOneDown ==
    [][ \A t \in Tasks :
          /\ (OneUpOneDown' /\ task'[t].op = "connect_all" /\ task'[t].pc = "done") =>
                /\ task'[t].succ = 1 /\ task'[t].ret = ReturnBool(TRUE)
                /\ connections' = <<[name |-> 1, conn |-> 1]>>
                /\ all_tools' = heap'[1].tools
          /\ (OneUpOneDown /\ Returned(task[t]) /\ task'[t].op = "call_tool") =>
                IF task'[t].tool \in {1, 2}
                THEN task'[t].pc = "k_call" /\ task'[t].fwd = <<1>>
                ELSE /\ task'[t].pc = "done" /\ task'[t].ret = ReturnNone
                     /\ task'[t].fwd = <<>>
          /\ (OneUpOneDown /\ task[t].pc = "k_call") =>
                /\ task'[t].pc = "done" /\ task'[t].fwd = <<1>>
                /\ task'[t].ret = IF task'[t].raised THEN ToolResponse_failure(NoneValue)
                                   ELSE parse_tool_message(task'[t].reply).value
      ]_vars
\* After that run tool 2 was asked for, sent to A, and A's reply came back
\* as a payload.
C19_Witness ==
    \E t \in Tasks :
        /\ OneUpOneDown /\ heap[2].stdio_exits = 1
        /\ task[t].op = "call_tool" /\ task[t].pc = "done" /\ task[t].tool = 2
        /\ task[t].fwd = <<1>>
        /\ task[t].ret = ToolResponse_success(Str(<<"\n", "a">>))

\* C20: MCPServerManager.call_tool for a name that some registered, live
\* connection exposes is sent to the first such connection in the order of
\* the table, and to no other.
Exposes(c, n) == \E i \in 1..Len(c.tools) : c.tools[i].name = n
LiveExposers(n) ==
    { i \in 1..Len(connections) :
        Live(heap[connections[i].conn]) /\ Exposes(heap[connections[i].conn], n) }
EarliestLiveExposer(n) ==
    connections[CHOOSE i \in LiveExposers(n) : \A j \in LiveExposers(n) : i <= j].conn
C20_EarliestLiveExposerIsCalled ==
    [][ \A t \in Tasks :
          ( /\ Returned(task[t]) /\ task'[t].op = "call_tool"
            /\ LiveExposers(task'[t].tool) # {} ) =>
              /\ task'[t].pc = "k_call"
              /\ task'[t].fwd = <<EarliestLiveExposer(task'[t].tool)>>
      ]_vars

\* C21: an env value of the exact form ${NAME}, NAME being letters, resolves
\* to the process environment's value of NAME, None when NAME is not set;
\* every other value, the bare ${} aside, resolves to itself.
IsName(n) == Len(n) >= 1 /\ \A i \in 1..Len(n) : n[i] \in {"A", "B"}
IsTemplate(v) ==
    Len(v) >= 3 /\ v[1] = "${" /\ v[Len(v)] = "}" /\ IsName(SubSeq(v, 2, Len(v) - 1))
C21_OnlyExactTemplatesAreReplaced ==
    \A t \in Tasks :
        (task[t].op = "resolve_env" /\ task[t].pc = "done") =>
            LET v == task[t].value IN
            IF IsTemplate(v)
            THEN task[t].ret.content = getenv(task[t].environ, SubSeq(v, 2, Len(v) - 1))
            ELSE v # <<"${", "}">> => task[t].ret.content = Str(v)

\* C22: with a configuration source that is missing or malformed,
\* connect_to_all_servers returns False at once without raising, creates no
\* connection and leaves the table and the catalogue as they were, and a
\* cleanup() called next returns None.
C22_BadSourceIsEmptyConfiguration ==
    [][ \A t \in Tasks :
          /\ (source # "servers" /\ Returned(task[t]) /\ task'[t].op = "connect_all") =>
                /\ task'[t].pc = "done" /\ task'[t].ret = ReturnBool(FALSE)
                /\ ~task'[t].raised
                /\ heap' = heap /\ connections' = connections /\ all_tools' = all_tools
          /\ ( /\ source # "servers" /\ task[t].op = "connect_all" /\ task[t].pc = "done"
               /\ task'[t].op = "cleanup" ) =>
                /\ task'[t].pc = "done" /\ task'[t].ret = ReturnNone
                /\ connections' = <<>> /\ all_tools' = <<>>
      ]_vars

C24_HandshakeRetries ==
    \A t \in Tasks :
        (task[t].op = "connect_all" /\ task[t].cur > 0) =>
            LET tk == task[t] IN
            /\ tk.inits <= max_retries
            /\ tk.pc \in {"c_init", "c_sleep", "c_list"} =>
                  tk.inits >= 1 /\ tk.attempt = tk.inits - 1
            /\ tk.pc \in {"c_init", "c_sleep"} => ~tk.init_ok
            /\ tk.pc = "c_sleep" => tk.inits < max_retries
            /\ tk.pc = "c_list" => tk.init_ok
            /\ tk.init_ok => tk.attempt = tk.inits - 1 /\ tk.cret # "False"
            /\ (tk.cret = "False" /\ tk.inits >= 1) =>
                  /\ tk.inits = max_retries /\ tk.attempt = max_retries - 1
                  /\ ~tk.init_ok
            /\ tk.cret = "True" => tk.init_ok
\* The second attempt succeeded after one sleep, and discovery is awaited.
C24_Witness ==
    \E t \in Tasks :
        /\ task[t].op = "connect_all" /\ task[t].pc = "c_list"
        /\ task[t].inits = 2 /\ task[t].attempt = 1 /\ task[t].init_ok

\* C25: in disconnect() the release of the stdio context is not invoked
\* before the release of the session context has ended; however the session
\* release ends (returned, raised, cancelled) the session and its context
\* are cleared and the stdio release is invoked; and however that one ends,
\* disconnect() returns with the session, both contexts and both streams
\* cleared, no tools, and the connection not connected.
C25_SessionBeforeStdio ==
    [][ \A t \in Tasks :
          LET id == task[t].cur IN
          /\ (task[t].pc = "d_sess_exit" /\ task'[t] # task[t]) =>
                /\ heap[id].session_exits = 1 /\ heap[id].stdio_exits = 0
                /\ ~heap[id].connected
                /\ heap'[id].session_context = "None" /\ heap'[id].session = "None"
                /\ heap[id].stdio_context # "None" =>
                      /\ task'[t].pc = "d_stdio_exit" /\ task'[t].cur = id
                      /\ heap'[id].stdio_exits = 1
          /\ (task[t].pc = "d_stdio_exit" /\ task'[t] # task[t]) =>
                /\ heap[id].session_context = "None" /\ heap[id].stdio_exits = 1
                /\ Closed(heap'[id]) /\ NoResources(heap'[id])
                /\ heap'[id].tools = <<>>
                /\ heap'[id].session_exits = heap[id].session_exits
                /\ heap'[id].stdio_exits = 1
      ]_vars
\* A disconnect() of a connected connection has returned after both of its
\* release steps failed.
C25_Witness ==
    \E t \in Tasks :
        /\ task[t].op = "disconnect" /\ task[t].pc = "done"
        /\ task[t].tfail = {task[t].cur}
        /\ heap[task[t].cur].session_exits = 1 /\ heap[task[t].cur].stdio_exits = 1
        /\ NoResources(heap[task[t].cur]) /\ ~heap[task[t].cur].connected

\* C26: in every state every connection has its stdio context and its two
\* streams all present or all absent.
C26_StreamsPairedWithContext ==
    \A i \in 1..Len(heap) :
        \/ /\ heap[i].stdio_context # "None"
           /\ heap[i].read_stream # "None" /\ heap[i].write_stream # "None"
        \/ /\ heap[i].stdio_context = "None"
           /\ heap[i].read_stream = "None" /\ heap[i].write_stream = "None"

\* C27: while a run of connect_to_all_servers is in progress, every
\* connection the run created before the one it is working on has reached
\* its outcome: it is connected with a live session, or it is closed with
\* every resource released.  So the run never has two connections between
\* launch and outcome.
Settled(c) == Live(c) \/ (Closed(c) /\ NoResources(c))
C27_OneConnectAtATime ==
    \A t \in Tasks :
        (task[t].op = "connect_all" /\ task[t].cur > 0) =>
            /\ task[t].cur = Len(heap)
            /\ \A j \in (task[t].cur - task[t].idx + 1)..(task[t].cur - 1) : Settled(heap[j])
            /\ task[t].pc \in {"m_sleep", "done"} => Settled(heap[task[t].cur])
\* The second server is being launched after the first one failed its
\* handshake and was torn down.
C27_Witness ==
    \E t \in Tasks :
        /\ task[t].op = "connect_all" /\ task[t].pc = "c_stdio_enter" /\ task[t].idx = 2
        /\ Closed(heap[1]) /\ NoResources(heap[1])
        /\ heap[1].session_exits = 1 /\ heap[1].stdio_exits = 1
        /\ ~Settled(heap[2])

\* C28: MCPServerConnection.call_tool sends a call to its own session once;
\* when the session answers, the reply is returned as it is; when it raises,
\* that error is raised to the caller and the call is not sent again; and
\* neither changes a field of the connection or of the manager.
C28_ConnectionCallIsForwardedOnce ==
    [][ \A t \in Tasks :
          /\ task'[t].op = "conn_call" => Len(task'[t].fwd) <= 1
          /\ task[t].pc = "n_call" =>
                /\ task[t].fwd = <<task[t].cur>>
                /\ task'[t].pc = "done" /\ task'[t].fwd = task[t].fwd
                /\ task'[t].ret = IF task'[t].raised THEN Raises("transport error")
                                   ELSE ReturnResult
                /\ task'[t].raised => task'[t].reply = NoReply
                /\ heap' = heap /\ ManagerState' = ManagerState
      ]_vars
\* The session raised, the error went to the caller, and the connection is
\* still connected with its session and its tools.
C28_Witness ==
    \E t \in Tasks :
        /\ task[t].op = "conn_call" /\ task[t].pc = "done" /\ task[t].raised
        /\ task[t].ret = Raises("transport error") /\ task[t].fwd = <<task[t].cur>>
        /\ Live(heap[task[t].cur]) /\ heap[task[t].cur].tools # <<>>

\* C29: a step of a MCPServerManager.call_tool changes nothing but the
\* calling task's own locals: the table, the catalogue, the cleanup flag,
\* every connection and the other task are as before.  So whatever calls are
\* in flight, a call is routed by the catalogue and the table as they stand,
\* to the owner of the first entry of its name when that is live, and
\* returns parse_tool_message of the reply it got, or ToolResponse.failure(None).
C29_CallsWriteNoSharedState ==
    [][ \A t \in Tasks :
          (task'[t] # task[t] /\ task'[t].op = "call_tool") =>
              /\ ManagerState' = ManagerState
              /\ \A u \in Tasks \ {t} : task'[u] = task[u]
              /\ IF task[t].pc = "k_call"
                 THEN /\ task'[t].pc = "done" /\ task'[t].fwd = task[t].fwd
                      /\ task'[t].ret =
                            IF task'[t].raised THEN ToolResponse_failure(NoneValue)
                            ELSE parse_tool_message(task'[t].reply).value
                 ELSE IF /\ Catalogued(task'[t].tool)
                         /\ Has(connections, Entry(task'[t].tool).server)
                         /\ Live(heap[Get(connections, Entry(task'[t].tool).server)])
                 THEN /\ task'[t].pc = "k_call"
                      /\ task'[t].fwd = <<Get(connections, Entry(task'[t].tool).server)>>
                 ELSE /\ task'[t].pc = "done" /\ task'[t].ret = ReturnNone
                      /\ task'[t].fwd = <<>>
      ]_vars
\* Both tasks called the same tool, both calls were in flight on the same
\* connection at once; one has failed and the other is still awaited.
C29_Witness ==
    /\ task[1].op = "call_tool" /\ task[1].pc = "done" /\ task[1].raised
    /\ task[2].op = "call_tool" /\ task[2].pc = "k_call"
    /\ task[1].tool = task[2].tool /\ task[1].fwd = task[2].fwd
    /\ Live(heap[task[2].cur])

\* C30: when connect() has gone through a discovery whose list_tools()
\* answered, the connection's tool list holds one descriptor for every tool of
\* the listing and nothing else, in listing order: each has the tool's name,
\* type "function" and the connection's server name; its description is the
\* tool's, or "Tool from <server> server" when the tool has none; its
\* parameters are the tool's inputSchema, or {} when the tool has none.
C30_EveryListedToolIsNormalized ==
    \A t \in Tasks :
        ( /\ task[t].op = "connect_all" /\ task[t].pc = "m_sleep"
          /\ task[t].disc \in {"ok", "normalize_raised"} ) =>
            LET c == heap[task[t].cur]
                listing == ServerTools(c.server_name)
            IN /\ Len(c.tools) = Len(listing)
               /\ \A i \in 1..Len(c.tools) :
                     /\ c.tools[i].name = listing[i].name
                     /\ c.tools[i].type = "function"
                     /\ c.tools[i].server = c.server_name
                     /\ c.tools[i].description =
                           IF listing[i].description = "None"
                           THEN DefaultDescription(c.server_name)
                           ELSE GivenDescription(listing[i].description)
                     /\ c.tools[i].parameters =
                           IF listing[i].inputSchema = "None" THEN "{}"
                           ELSE listing[i].inputSchema

\* C31: in every state, a connection whose connected flag is set has its
\* session, its session context and its stdio context; so is_connected is
\* false for a connection that has released them or never acquired them.
C31_ConnectedHoldsItsResources ==
    \A i \in 1..Len(heap) :
        /\ heap[i].connected =>
              /\ heap[i].session # "None"
              /\ heap[i].session_context = "entered"
              /\ heap[i].stdio_context = "entered"
        /\ NoResources(heap[i]) => ~is_connected(heap[i])
\* One connection is connected with everything it acquired, and another,
\* which was connected, has released its two contexts.
C31_Witness ==
    \E i, j \in 1..Len(heap) :
        /\ heap[i].connected /\ heap[i].session = "live"
        /\ heap[j].session_exits = 1 /\ heap[j].stdio_exits = 1
        /\ NoResources(heap[j]) /\ ~heap[j].connected
        /\ \E t \in Tasks : task[t].op = "cleanup" /\ task[t].cur = j

\* C32: whenever a cleanup() has returned, whatever connect_to_all_servers
\* and cleanup calls the manager went through before, the table and the
\* catalogue are empty and no connection the manager created is connected.
C32_CleanupStaysEffective ==
    \A t \in Tasks :
        (task[t].op = "cleanup" /\ task[t].pc = "done") =>
            /\ connections = <<>> /\ all_tools = <<>>
            /\ \A i \in 1..Len(heap) : ~heap[i].connected

\* C33: a cleanup() called while an earlier cleanup() is suspended in the
\* teardown of a connection does not return before every registered
\* connection is disconnected and the table and the catalogue are empty.
CleanupSuspended(tk) == tk.op = "cleanup" /\ InTeardown(tk)
C33_LaterCleanupWaitsForTheEarlier ==
    [][ \A t, u \in Tasks :
          ( /\ t # u /\ CleanupSuspended(task[u])
            /\ Returned(task[t])
            /\ task'[t].op = "cleanup" /\ task'[t].pc = "done" ) =>
              /\ connections' = <<>> /\ all_tools' = <<>>
              /\ \A i \in 1..Len(task[u].snap) :
                    Closed(heap'[task[u].snap[i]]) ]_vars

\* C34: with cleanup() interleaved with connect_to_all_servers, a
\* connection that holds a live session or an entered stdio context is in the
\* connection table, unless a connect() or a disconnect() is at work on it
\* at that moment.
WorkedOn(i) ==
    \E t \in Tasks :
        /\ task[t].cur = i
        /\ task[t].pc \in {"c_stdio_enter", "c_sess_enter", "c_init", "c_sleep", "c_list",
                            "d_sess_exit", "d_stdio_exit"}
C34_NoLiveConnectionOutsideTheTable ==
    \A i \in 1..Len(heap) :
        HoldsLiveResources(heap[i]) => (i \in Registered \/ WorkedOn(i))

\* C35: __aexit__ is invoked on a session context or a stdio context only
\* when the __aenter__ of that context has completed.
C35_ReleaseOnlyWhatWasEntered ==
    [][ \A i \in 1..Len(heap) :
          /\ heap'[i].session_exits > heap[i].session_exits =>
                heap[i].session_context = "entered"
          /\ heap'[i].stdio_exits > heap[i].stdio_exits =>
                heap[i].stdio_context = "entered" ]_vars

\* C36: no session context and no stdio context has its __aexit__ invoked
\* more than once, whatever disconnect() calls follow one another: the one
\* of connect()'s except handler, the one connect_to_all_servers makes after
\* connect() returned False, a caller's, and those of a later cleanup().
C36_ReleasedAtMostOnce ==
    \A i \in 1..Len(heap) : heap[i].session_exits <= 1 /\ heap[i].stdio_exits <= 1
\* A cleanup() has gone through its loop and returned; it released a
\* connection of the table, and a connection whose connect() had failed
\* after the session was opened, which connect() and then the manager had
\* disconnected, still has one release of each context.
C36_Witness ==
    \E t \in Tasks : \E i, j \in 1..Len(heap) :
        /\ task[t].op = "cleanup" /\ task[t].pc = "done" /\ ~task[t].early
        /\ \E k \in 1..Len(task[t].snap) : task[t].snap[k] = i
        /\ \A k \in 1..Len(task[t].snap) : task[t].snap[k] # j
        /\ heap[i].session_exits = 1 /\ heap[i].stdio_exits = 1
        /\ heap[j].session_exits = 1 /\ heap[j].stdio_exits = 1
        /\ NoResources(heap[i]) /\ NoResources(heap[j])

\* C37: when a connect() was cancelled from outside at a suspension point
\* after its stdio context was created, the connection it abandoned holds no
\* session context and no stdio context.
C37_CancelledConnectReleases ==
    \A t \in Tasks :
        ( /\ task[t].op = "connect_all" /\ task[t].pc = "done"
          /\ task[t].ret = Raises("CancelledError") ) =>
            /\ heap[task[t].cur].session_context = "None"
            /\ heap[task[t].cur].stdio_context = "None"

\* C38: an openai_query_handler that has ended has returned a string,
\* having gone through every output of the model's response, whatever
\* call_tool gave it: None for a tool that is not in the catalogue or whose
\* server is not connected, or a failure.
C38_HandlerAlwaysReplies ==
    \A t \in Tasks :
        (task[t].op = "query" /\ task[t].pc = "done") =>
            /\ task[t].ret.kind = "str" /\ ~task[t].raised
            /\ task[t].opos = Len(task[t].outputs) + 1

\* C39: a response longer than MAX_MESSAGE_LENGTH is split into parts that
\* are sent in order, whose concatenation is the response, and each of which
\* is non-empty and at most MAX_MESSAGE_LENGTH characters long.
Concatenation(ps) ==
    LET RECURSIVE Cat(_)
        Cat(i) == IF i = 0 THEN <<>> ELSE Cat(i - 1) \o ps[i]
    IN Cat(Len(ps))
C39_SplitIsExactAndBounded ==
    \A t \in Tasks :
        ( /\ task[t].op = "telegram" /\ task[t].pc \in {"t_send", "done"}
          /\ Len(task[t].response_text) > MAX_MESSAGE_LENGTH ) =>
            /\ task[t].sent = SubSeq(task[t].parts, 1, Len(task[t].sent))
            /\ task[t].pc = "done" => task[t].sent = task[t].parts
            /\ Concatenation(task[t].parts) = task[t].response_text
            /\ \A i \in 1..Len(task[t].parts) :
                  /\ task[t].parts[i] # <<>>
                  /\ Len(task[t].parts[i]) <= MAX_MESSAGE_LENGTH

====
